---------------------------- MODULE Spec2Model ----------------------------
(***************************************************************************)
(* Model of the ingest / publish / feed-window pipeline of the             *)
(* lambda-cron-msn-feed converter:                                         *)
(*   src/index.js            runFeedConverter                              *)
(*   src/drivers/wordpress.js WordPressDriver.ingest / fetchContent /      *)
(*                            normalizePost / parseContent                 *)
(*   src/utils/database.js   DatabaseManager (table ingested_content)      *)
(*   src/utils/profanity.js  containsProfanity / filterProfanity           *)
(*                                                                         *)
(* The table is a sequence of rows (the auto-increment id is the index).   *)
(* One invocation of runFeedConverter is a process p with a program        *)
(* counter; every store statement is one atomic step.                      *)
(***************************************************************************)
EXTENDS Integers, Sequences, FiniteSets, TLC

-----------------------------------------------------------------------------
(* Bounds of the model *)

MaxRuns == 2          \* invocations of runFeedConverter in one behaviour
MaxPosts == 2         \* posts the upstream serves in one behaviour
MaxPages == 2         \* largest x-wp-totalpages the upstream reports
MaxPerPage == 1       \* largest number of posts in one upstream page
MaxMod == 2           \* upstream modified_gmt values are 1..MaxMod
MaxRows == 21         \* rows of a large table at the start of a publication

(* Program constants *)

OnboardingLimit == 20       \* index.js: isNewSource ? 20 : FEED_ITEMS_PER_RUN
PublishedFetchLimit == 20   \* index.js: db.getPublishedItems(20, ...)

-----------------------------------------------------------------------------
(* Value spaces *)

Procs == {1, 2}                \* invocations that can be in progress
Sources == {"s1", "s2"}
FeedTypes == {"article", "slideshow"}
Ids == {1, 2}                  \* upstream post ids
Mods == 1..MaxMod
Statuses == {"pending", "published", "skipped"}

Null == 0                      \* SQL NULL of a TIMESTAMP column (times are >= 1)
NullStr == "NULL"              \* SQL NULL of a VARCHAR column
NullJson == [null |-> TRUE]    \* SQL NULL of a JSON column
NoRow == [norow |-> TRUE]      \* getItemByHash found nothing

(* Texts are sets of lower-cased words; "" is the empty set. *)
CleanText == {"hello"}
BadText == {"hello", "damn"}
TermLists == {{}, {"damn"}}

(* Where a revision of an upstream post carries the listed term: the       *)
(* upstream catalogue gives every (id, modified) one fixed content.        *)
BadKinds == <<"none", "title", "slide", "excerpt", "intro">>
BadInOf(id, modified) == BadKinds[((2 * (id - 1) + (modified - 1)) % 5) + 1]

(* One post of the WordPress REST listing. *)
UpstreamPosts == [id : Ids, modified : Mods]

(* A record of the listing without guid or yoast_head_json (a malformed    *)
(* payload), and all the records a page can hold.                          *)
Malformed == [malformed |-> TRUE]
UpstreamRecords == UpstreamPosts \cup {Malformed}

(* Configuration values.  A field that the code has not read yet is held   *)
(* as Unread and drawn when the code first reads it (the configuration is  *)
(* immutable during a run, so the draw commutes with the earlier steps).   *)
Unread == 0
UnreadFlag == "unread"        \* PROFANITY_FILTER_ENABLED is the string "true" or "false"
PerRunValues == {1, 2}
MaxTotalValues == {1, 2, PublishedFetchLimit + 2}

(* The configuration files: one per source, each with its feed type. *)
ConfigFiles ==
    {[EXTERNAL_FEED_SOURCE |-> "s1", EXTERNAL_FEED_TYPE |-> "article"],
     [EXTERNAL_FEED_SOURCE |-> "s2", EXTERNAL_FEED_TYPE |-> "slideshow"]}

-----------------------------------------------------------------------------
VARIABLES
    table,      \* ingested_content: sequence of rows
    now,        \* NOW() of the store, advanced once per invocation
    runs,       \* number of invocations started
    served,     \* number of posts the upstream has served
    run,        \* run[p]: locals of invocation p of runFeedConverter
    migration   \* the migrations table and the locals of MigrationRunner

vars == <<table, now, runs, served, run, migration>>

-----------------------------------------------------------------------------
(* Sequence helpers *)

(* a slice that keeps the whole list *)
Take_all(s, n) == s

(* s.slice(0, n) *)
Take(s, n) == IF Len(s) <= n THEN s ELSE SubSeq(s, 1, n)

SeqRange(s) == {s[i] : i \in 1..Len(s)}

-----------------------------------------------------------------------------
(* migrations/migrate.js: MigrationRunner.  The version of a migration is *)
(* the prefix of its file name, a string of fixed width ("001"), so the    *)
(* order of the file names and the comparison of versions are the order   *)
(* of the numbers.                                                         *)
MaxVersions == 3
MaxUps == 2

Versions == 1..MaxVersions
NoTarget == 0                  \* up without a version argument

(* getMigrationFiles: the files of the directory, sorted *)
getMigrationFiles(files) ==
    CHOOSE q \in [1..Cardinality(files) -> files] :
        \A a, b \in 1..Cardinality(files) : a < b => q[a] < q[b]

(* getAppliedMigrations: the versions recorded in the migrations table *)
getAppliedMigrations(rows) == {rows[i] : i \in 1..Len(rows)}

(* a runner that takes no migration for applied *)
IsApplied_never(appliedMigrations, version) == FALSE

(* migrate.js 91: appliedMigrations.includes(version) *)
IsApplied(appliedMigrations, version) == version \in appliedMigrations

(* migrate.js 97: targetVersion && version > targetVersion *)
PastTarget(targetVersion, version) == targetVersion # NoTarget /\ version > targetVersion

(* files: the migration files of the directory; rows: the versions of the *)
(* migrations table in the order of their insertion; ups: the versions   *)
(* whose up has run to its end, in that order; the rest are the locals of *)
(* up.                                                                     *)
IdleRunner(files, rows) ==
    [files |-> files, rows |-> rows, ups |-> rows, pc |-> "idle",
     migrationFiles |-> <<>>, appliedMigrations |-> {}, idx |-> 0,
     targetVersion |-> NoTarget, invocations |-> 0, error |-> "NULL"]

(* the database of the feed converter: 001_create_ingested_content_table  *)
(* is applied                                                              *)
Migrated == IdleRunner({1}, <<1>>)

(* a migration file is added to the directory *)
AddMigrationFile ==
    /\ migration.pc = "idle"
    /\ \E v \in Versions \ migration.files :
          migration' = [migration EXCEPT !.files = @ \cup {v}]
    /\ UNCHANGED <<table, now, runs, served, run>>

(* migrate.js 81-85: node migrate.js up [version] *)
MigrateUp ==
    /\ migration.pc = "idle"
    /\ migration.invocations < MaxUps
    /\ \E targetVersion \in {NoTarget} \cup Versions :
          migration' = [migration EXCEPT
                           !.pc = "loop",
                           !.migrationFiles = getMigrationFiles(migration.files),
                           !.appliedMigrations = getAppliedMigrations(migration.rows),
                           !.idx = 1,
                           !.targetVersion = targetVersion,
                           !.invocations = @ + 1,
                           !.error = "NULL"]
    /\ UNCHANGED <<table, now, runs, served, run>>

(* migrate.js 87-118: one iteration of the loop over the files; the up of *)
(* a migration succeeds or throws                                          *)
UpIteration ==
    /\ migration.pc = "loop"
    /\ migration.idx <= Len(migration.migrationFiles)
    /\ LET version == migration.migrationFiles[migration.idx]
       IN IF IsApplied(migration.appliedMigrations, version)
          THEN migration' = [migration EXCEPT !.idx = @ + 1]
          ELSE IF PastTarget(migration.targetVersion, version)
          THEN migration' = [migration EXCEPT !.pc = "idle"]
          ELSE \E ok \in BOOLEAN :
                  IF ok
                  THEN migration' = [migration EXCEPT !.ups = Append(@, version),
                                                      !.rows = Append(@, version),
                                                      !.idx = @ + 1]
                  ELSE migration' = [migration EXCEPT !.pc = "idle",
                                                      !.error = "Migration failed"]
    /\ UNCHANGED <<table, now, runs, served, run>>

(* migrate.js 121: the loop has gone through all the files *)
UpReturn ==
    /\ migration.pc = "loop"
    /\ migration.idx > Len(migration.migrationFiles)
    /\ migration' = [migration EXCEPT !.pc = "idle"]
    /\ UNCHANGED <<table, now, runs, served, run>>

InitMigrate ==
    /\ table = <<>>
    /\ now = 1
    /\ runs = 0
    /\ served = 0
    /\ run = [p \in Procs |-> [pc |-> "idle"]]
    /\ \E files \in SUBSET Versions : migration = IdleRunner(files, <<>>)

NextMigrate ==
    \/ AddMigrationFile
    \/ MigrateUp
    \/ UpIteration
    \/ UpReturn

SpecMigrate == InitMigrate /\ [][NextMigrate]_vars

-----------------------------------------------------------------------------
(* WordPressDriver: identity and payload of an upstream post *)

(* generateHash: sha256("WordPress:" + guid); injective in the guid and     *)
(* independent of the source the post is ingested under.                   *)
generateHash(guid) == <<"WordPress", guid>>

(* The upstream publish date of a post (date_gmt) never changes. *)
DateOf(id) == id

(* The rendered body of a post, as cheerio sees it once the sidebar is     *)
(* removed and the div tags are unwrapped: the sequence of its sibling    *)
(* nodes.  A figure is a figure.wp-block-image; size tells whether it     *)
(* also has the class size-large, img which attributes its img has.       *)
NoImg == "none"                \* the figure holds no img
ImgKinds == {NoImg, "nourl", "src", "lazy", "both"}

Figure(size, img, caption) ==
    [kind |-> "figure", size |-> size, img |-> img, text |-> caption]
Heading(text) == [kind |-> "h2", size |-> "", img |-> "", text |-> text]
Para(text) == [kind |-> "p", size |-> "", img |-> "", text |-> text]

(* the body of a post of the catalogue: an intro paragraph, then one slide *)
PostBody(intro, slide) ==
    <<Para(intro), Figure("large", "src", {}), Heading(CleanText), Para(slide)>>

(* cleanPostContent reads guid.rendered, title.rendered and                *)
(* yoast_head_json.schema['@graph'][0] of the record: a TypeError when one *)
(* of them is missing.                                                     *)
cleanPostContentThrows(post) == post = Malformed

(* cleanPostContent: the cleaned post stored as full_content. *)
cleanPostContent(post) ==
    [id |-> post.id,
     date |-> DateOf(post.id),
     modified |-> post.modified,
     title |-> IF BadInOf(post.id, post.modified) = "title" THEN BadText ELSE CleanText,
     excerpt |-> IF BadInOf(post.id, post.modified) = "excerpt" THEN BadText ELSE CleanText,
     content |-> PostBody(IF BadInOf(post.id, post.modified) = "intro"
                             THEN BadText ELSE CleanText,
                          IF BadInOf(post.id, post.modified) = "slide"
                             THEN BadText ELSE CleanText)]

(* wordpress.js 264-267: what ingest throws when cleanPostContent threw *)
IngestTypeError == "WordPress ingestion failed: Cannot read properties of undefined"

(* The item built in the ingest loop for one post. *)
IngestItem(post) ==
    [guid |-> post.id,
     content_hash |-> generateHash(post.id),
     item_published_at |-> DateOf(post.id),
     item_modified_at |-> post.modified,
     metadata |-> [id |-> post.id, modified |-> post.modified],
     full_content |-> cleanPostContent(post)]

(* The values EXTERNAL_FEED_TYPE can hold: any non-empty string passes     *)
(* validateRequiredConfig.                                                 *)
ContentTypeFlags == {"article", "Article", "slideshow", "Slideshow"}

(* String.prototype.toLowerCase over the flags *)
toLowerCase(s) ==
    CASE s = "Slideshow" -> "slideshow"
      [] s = "Article" -> "article"
      [] OTHER -> s

(* $.text() of a list of nodes: the words of all of them *)
TextOf(nodes) == UNION {nodes[i].text : i \in 1..Len(nodes)}

(* the words of a raw body *)
RawBody(content) == TextOf(content)

(* $img.attr('src') || $img.attr('data-src') || null *)
NoUrl == "null"
imageUrl(figure) ==
    IF figure.img \in {"src", "both"} THEN "src"
    ELSE IF figure.img = "lazy" THEN "data-src"
    ELSE NoUrl

(* the first index after k of a node of the given kind, 0 when none *)
NextOfKind(nodes, k, kind) ==
    LET S == {j \in (k + 1)..Len(nodes) : nodes[j].kind = kind}
    IN IF S = {} THEN 0 ELSE CHOOSE j \in S : \A m \in S : j <= m

(* wordpress.js 128-145: the h2 after the figure at k (0 when none) and    *)
(* the siblings after that h2 up to the next figure.wp-block-image         *)
nextH2(nodes, k) == NextOfKind(nodes, k, "h2")

slideContent(nodes, k) ==
    LET h == nextH2(nodes, k)
        f == NextOfKind(nodes, h, "figure")
    IN IF h = 0 THEN <<>>
       ELSE IF f = 0 THEN SubSeq(nodes, h + 1, Len(nodes))
       ELSE SubSeq(nodes, h + 1, f - 1)

(* wordpress.js 118-159: the each() over figure.wp-block-image from the    *)
(* node at k on                                                            *)
RECURSIVE SlidesFrom(_, _)
SlidesFrom(nodes, k) ==
    IF k > Len(nodes) THEN <<>>
    ELSE IF \/ nodes[k].kind # "figure"
            \/ nodes[k].img = NoImg
            \/ imageUrl(nodes[k]) = NoUrl
    THEN SlidesFrom(nodes, k + 1)
    ELSE <<[url |-> imageUrl(nodes[k]),
            title |-> IF nextH2(nodes, k) = 0 THEN {} ELSE nodes[nextH2(nodes, k)].text,
            text |-> TextOf(slideContent(nodes, k))]>>
         \o SlidesFrom(nodes, k + 1)

(* wordpress.js 161-173: everything before the first                      *)
(* figure.wp-block-image.size-large, or the whole document                 *)
introContent(nodes) ==
    LET S == {j \in 1..Len(nodes) : nodes[j].kind = "figure" /\ nodes[j].size = "large"}
    IN IF S = {} THEN nodes
       ELSE SubSeq(nodes, 1, (CHOOSE j \in S : \A m \in S : j <= m) - 1)

(* a segmentation that carries its slide counter over from the items the  *)
(* run has published before                                                *)
parseSlideShow_carried(content) ==
    [content |-> TextOf(introContent(content)),
     isSlideShow |-> TRUE,
     images |-> SlidesFrom(content, 1 + run[1].processedCount)]

(* parseSlideShow: the intro text and the slide list *)
parseSlideShow(content) ==
    [content |-> TextOf(introContent(content)),
     isSlideShow |-> TRUE,
     images |-> SlidesFrom(content, 1)]

(* a parse that splits every body into slides, whatever the flag *)
parseContent_slides(content, feedType) == parseSlideShow(content)

(* parseContent: an empty body gives the empty article; a flag that reads  *)
(* "slideshow" in lower case splits the body with parseSlideShow; any      *)
(* other flag keeps the whole body as it is.                               *)
parseContent(content, feedType) ==
    IF content = <<>>
    THEN [content |-> {}, isSlideShow |-> FALSE, images |-> <<>>]
    ELSE IF toLowerCase(feedType) = "slideshow"
    THEN parseSlideShow(content)
    ELSE [content |-> RawBody(content), isSlideShow |-> FALSE, images |-> <<>>]

(* normalizePost *)
normalizePost(post, feedType) ==
    LET parsedContent == parseContent(post.content, feedType)
    IN [title |-> post.title,
        description |-> post.excerpt,
        content |-> parsedContent.content,
        guid |-> post.id,
        pubDate |-> post.date,
        modified |-> post.modified,
        isSlideShow |-> parsedContent.isSlideShow,
        images |-> parsedContent.images]

-----------------------------------------------------------------------------
(* utils/profanity.js *)

(* containsProfanity: false for empty text or empty list, else a word match *)
containsProfanity(text, profanityList) ==
    /\ text # {}
    /\ profanityList # {}
    /\ \E term \in profanityList : term \in text

(* the text of all slides of an item, joined *)
ImageContent(item) ==
    IF item.isSlideShow
    THEN UNION {item.images[i].title \cup item.images[i].text : i \in 1..Len(item.images)}
    ELSE {}

hasProfanity(item, profanityList) ==
    \/ containsProfanity(item.title, profanityList)
    \/ containsProfanity(item.description, profanityList)
    \/ containsProfanity(item.content, profanityList)
    \/ containsProfanity(ImageContent(item), profanityList)

RECURSIVE filterProfanityRec(_, _)
filterProfanityRec(items, profanityList) ==
    IF items = <<>> THEN <<>>
    ELSE (IF hasProfanity(Head(items), profanityList) THEN <<>> ELSE <<Head(items)>>)
         \o filterProfanityRec(Tail(items), profanityList)

(* filterProfanity: the items that contain NO listed term *)
filterProfanity(items, profanityList) ==
    IF profanityList = {} THEN items
    ELSE filterProfanityRec(items, profanityList)

-----------------------------------------------------------------------------
(* utils/database.js: DatabaseManager over the table ingested_content *)

(* item_published_at / item_modified_at as read back from the store: the    *)
(* value that was written (the columns' DDL is not part of the sources).   *)
StoredTimestamp(v) == v

RowIdx(tbl, Test(_)) == {i \in 1..Len(tbl) : Test(tbl[i])}

(* isNewSource: the row count WHERE source, platform, feed_type is zero *)
isNewSource(tbl, config) ==
    LET Match(r) == /\ r.source = config.EXTERNAL_FEED_SOURCE
                    /\ r.platform = config.EXTERNAL_FEED_PLATFORM
                    /\ r.feed_type = config.EXTERNAL_FEED_TYPE
    IN Cardinality(RowIdx(tbl, Match)) = 0

(* a lookup WHERE content_hash = ? alone *)
getItemByHash_anySource(tbl, contentHash, source) ==
    LET hits == {i \in 1..Len(tbl) : tbl[i].content_hash = contentHash}
    IN IF hits = {} THEN NoRow
       ELSE tbl[CHOOSE i \in hits : \A j \in hits : i <= j]

(* getItemByHash: rows[0] of WHERE content_hash = ? AND source = ?, or null *)
getItemByHash(tbl, contentHash, source) ==
    LET Match(r) == r.content_hash = contentHash /\ r.source = source
        hits == RowIdx(tbl, Match)
    IN IF hits = {} THEN NoRow
       ELSE tbl[CHOOSE i \in hits : \A j \in hits : i <= j]

(* a table whose unique key is content_hash alone *)
unique_content_source_hashOnly(tbl, contentHash, source) ==
    \A i \in 1..Len(tbl) : tbl[i].content_hash # contentHash

(* a table created without the unique key *)
unique_content_source_absent(tbl, contentHash, source) == TRUE

(* UNIQUE KEY unique_content_source (content_hash, source): an INSERT of a  *)
(* key that is already present is rejected with ER_DUP_ENTRY.              *)
unique_content_source(tbl, contentHash, source) ==
    \A i \in 1..Len(tbl) :
        ~(tbl[i].content_hash = contentHash /\ tbl[i].source = source)

(* insertItem: the INSERT; columns it does not name take their defaults *)
insertItem(tbl, item, config, t) ==
    Append(tbl,
        [content_hash |-> item.content_hash,
         source |-> config.EXTERNAL_FEED_SOURCE,
         guid |-> item.guid,
         platform |-> config.EXTERNAL_FEED_PLATFORM,
         feed_type |-> config.EXTERNAL_FEED_TYPE,
         status |-> "pending",
         ingested_at |-> t,
         published_at |-> Null,
         skipped_at |-> Null,
         skip_reason |-> NullStr,
         metadata |-> item.metadata,
         full_content |-> item.full_content,
         processed_data |-> NullJson,
         item_published_at |-> StoredTimestamp(item.item_published_at),
         item_modified_at |-> StoredTimestamp(item.item_modified_at)])

(* updateItem: UPDATE ... WHERE content_hash = ?  (the source is not part   *)
(* of the WHERE clause)                                                    *)
updateItem(tbl, item, status) ==
    [i \in 1..Len(tbl) |->
        IF tbl[i].content_hash = item.content_hash
        THEN [tbl[i] EXCEPT
                 !.metadata = item.metadata,
                 !.full_content = item.full_content,
                 !.item_published_at = StoredTimestamp(item.item_published_at),
                 !.item_modified_at = StoredTimestamp(item.item_modified_at),
                 !.status = status]
        ELSE tbl[i]]

(* a reconciliation that retires the rows it rewrites *)
ReconcileStatus_retire(dbContent) == "skipped"

(* an updateItem call that always keeps the stored status *)
ReconcileStatus_keep(dbContent) == dbContent.status

(* The status insertItemDirect passes to updateItem. *)
ReconcileStatus(dbContent) ==
    IF dbContent.item_modified_at = Null THEN dbContent.status ELSE "pending"

(* an insertItemDirect that rewrites every row it finds *)
insertItemDirect_always(tbl, item, config, dbContent, t) ==
    IF dbContent = NoRow
    THEN insertItem(tbl, item, config, t)
    ELSE updateItem(tbl, item, ReconcileStatus(dbContent))

(* insertItemDirect after its lookup returned dbContent: the new table *)
insertItemDirect(tbl, item, config, dbContent, t) ==
    IF dbContent = NoRow
    THEN insertItem(tbl, item, config, t)
    ELSE IF item.item_modified_at # dbContent.item_modified_at
         THEN updateItem(tbl, item, ReconcileStatus(dbContent))
         ELSE tbl

(* an updateItemStatus on a table whose ingested_at column is declared      *)
(* ON UPDATE CURRENT_TIMESTAMP                                             *)
updateItemStatus_touch(tbl, contentHash, source, status, skipReason, processedData, t) ==
    [i \in 1..Len(tbl) |->
        IF tbl[i].content_hash = contentHash /\ tbl[i].source = source
        THEN [tbl[i] EXCEPT
                 !.status = status,
                 !.ingested_at = t,
                 !.published_at = IF status = "published" THEN t ELSE @,
                 !.skipped_at = IF status = "skipped" THEN t ELSE @,
                 !.skip_reason = IF status = "skipped" THEN skipReason ELSE @,
                 !.processed_data = IF processedData # NullJson THEN processedData ELSE @]
        ELSE tbl[i]]

(* updateItemStatus: UPDATE ... WHERE content_hash = ? AND source = ? *)
updateItemStatus(tbl, contentHash, source, status, skipReason, processedData, t) ==
    [i \in 1..Len(tbl) |->
        IF tbl[i].content_hash = contentHash /\ tbl[i].source = source
        THEN [tbl[i] EXCEPT
                 !.status = status,
                 !.published_at = IF status = "published" THEN t ELSE @,
                 !.skipped_at = IF status = "skipped" THEN t ELSE @,
                 !.skip_reason = IF status = "skipped" THEN skipReason ELSE @,
                 !.processed_data = IF processedData # NullJson THEN processedData ELSE @]
        ELSE tbl[i]]

(* All results of SELECT ... ORDER BY key LIMIT n over the row indices in   *)
(* hits: rows with equal keys come in any order.  key[i] is ascending.     *)
RECURSIVE OrderedLimit(_, _, _)
OrderedLimit(hits, key, n) ==
    IF n <= 0 \/ hits = {} THEN {<<>>}
    ELSE UNION {{<<i>> \o q : q \in OrderedLimit(hits \ {i}, key, n - 1)} :
                   i \in {h \in hits : \A j \in hits : key[h] <= key[j]}}

(* a getPendingItems with ORDER BY ingested_at DESC *)
getPendingItems_newest(tbl, limit, config) ==
    LET Match(r) == /\ r.source = config.EXTERNAL_FEED_SOURCE
                    /\ r.status = "pending"
                    /\ r.feed_type = config.EXTERNAL_FEED_TYPE
        key == [i \in 1..Len(tbl) |-> 0 - tbl[i].ingested_at]
    IN {[a \in DOMAIN q |-> tbl[q[a]]] : q \in OrderedLimit(RowIdx(tbl, Match), key, limit)}

(* getPendingItems: WHERE source, status = 'pending', feed_type             *)
(* ORDER BY ingested_at ASC LIMIT limit; the possible row sequences        *)
getPendingItems(tbl, limit, config) ==
    LET Match(r) == /\ r.source = config.EXTERNAL_FEED_SOURCE
                    /\ r.status = "pending"
                    /\ r.feed_type = config.EXTERNAL_FEED_TYPE
        key == [i \in 1..Len(tbl) |-> tbl[i].ingested_at]
    IN {[a \in DOMAIN q |-> tbl[q[a]]] : q \in OrderedLimit(RowIdx(tbl, Match), key, limit)}

(* a getPublishedItems without the LIMIT clause *)
getPublishedItems_unlimited(tbl, maxItems, config, excludeContentHashes) ==
    LET Match(r) == /\ r.source = config.EXTERNAL_FEED_SOURCE
                    /\ r.status = "published"
                    /\ r.feed_type = config.EXTERNAL_FEED_TYPE
                    /\ r.content_hash \notin SeqRange(excludeContentHashes)
        key == [i \in 1..Len(tbl) |-> 0 - tbl[i].item_published_at]
    IN {[a \in DOMAIN q |-> tbl[q[a]]] : q \in OrderedLimit(RowIdx(tbl, Match), key, Len(tbl))}

(* a getPublishedItems without the NOT IN clause *)
getPublishedItems_noExclude(tbl, maxItems, config, excludeContentHashes) ==
    LET Match(r) == /\ r.source = config.EXTERNAL_FEED_SOURCE
                    /\ r.status = "published"
                    /\ r.feed_type = config.EXTERNAL_FEED_TYPE
        key == [i \in 1..Len(tbl) |-> 0 - tbl[i].item_published_at]
    IN {[a \in DOMAIN q |-> tbl[q[a]]] : q \in OrderedLimit(RowIdx(tbl, Match), key, maxItems)}

(* getPublishedItems: WHERE source, status = 'published', feed_type,        *)
(* content_hash NOT IN exclude ORDER BY item_published_at DESC LIMIT max   *)
getPublishedItems(tbl, maxItems, config, excludeContentHashes) ==
    LET Match(r) == /\ r.source = config.EXTERNAL_FEED_SOURCE
                    /\ r.status = "published"
                    /\ r.feed_type = config.EXTERNAL_FEED_TYPE
                    /\ r.content_hash \notin SeqRange(excludeContentHashes)
        key == [i \in 1..Len(tbl) |-> 0 - tbl[i].item_published_at]
    IN {[a \in DOMAIN q |-> tbl[q[a]]] : q \in OrderedLimit(RowIdx(tbl, Match), key, maxItems)}

-----------------------------------------------------------------------------
(* index.js: pure parts of runFeedConverter *)

(* isClean of the per-item profanity check *)
IsClean(normalizedPost, profanityFilterEnabled, profanityList) ==
    IF profanityFilterEnabled
    THEN Len(filterProfanity(<<normalizedPost>>, profanityList)) = 0
    ELSE TRUE

(* a processing limit that is always the configured one *)
ProcessingLimit_configured(newSource, config) == config.FEED_ITEMS_PER_RUN

(* processingLimit *)
ProcessingLimit(newSource, config) ==
    IF newSource THEN OnboardingLimit ELSE config.FEED_ITEMS_PER_RUN

RECURSIVE InsertByPubDate(_, _)
InsertByPubDate(s, x) ==
    IF s = <<>> THEN <<x>>
    ELSE IF x.pubDate > Head(s).pubDate THEN <<x>> \o s
         ELSE <<Head(s)>> \o InsertByPubDate(Tail(s), x)

(* a comparator that leaves the list as it is *)
SortByPubDateDesc_none(s) == s

RECURSIVE SortByPubDateDesc(_)
(* allFeedItems.sort((a, b) => new Date(b.pubDate) - new Date(a.pubDate)), stable *)
SortByPubDateDesc(s) ==
    IF s = <<>> THEN <<>>
    ELSE InsertByPubDate(SortByPubDateDesc(SubSeq(s, 1, Len(s) - 1)), s[Len(s)])

(* a window that sorts and cuts whatever the length *)
MovingWindow_sorted(allFeedItems, maxTotal) ==
    Take(SortByPubDateDesc(allFeedItems), maxTotal)

(* the moving window over the combined feed items *)
MovingWindow(allFeedItems, maxTotal) ==
    IF Len(allFeedItems) > maxTotal
    THEN Take(SortByPubDateDesc(allFeedItems), maxTotal)
    ELSE allFeedItems

-----------------------------------------------------------------------------
(* Initial state *)

NoConfig == [noconfig |-> TRUE]
NoItem == [noitem |-> TRUE]

IdleRun ==
    [pc |-> "idle",
     config |-> NoConfig,
     isNewSource |-> FALSE,
     currentPage |-> 0,
     totalPages |-> 0,
     remaining |-> 0,
     item |-> NoItem,
     dbContent |-> NoRow,
     totalIngested |-> 0,
     totalNew |-> 0,
     profanityList |-> {},
     pendingItems |-> <<>>,
     idx |-> 0,
     feedItems |-> <<>>,
     processedContentHashes |-> <<>>,
     existingPublishedItems |-> <<>>,
     processedCount |-> 0,
     skippedCount |-> 0,
     finalFeedItems |-> <<>>,
     error |-> NullStr]

(* The variables validateRequiredConfig asks for; a variable that neither *)
(* the environment nor the file sets, or that is set to "", is missing.    *)
RequiredVars ==
    {"EXTERNAL_FEED_URL", "EXTERNAL_FEED_PLATFORM", "EXTERNAL_FEED_TYPE",
     "EXTERNAL_FEED_SOURCE", "FEED_FILE_NAME"}
Missing == ""

(* what an invocation can find unset: nothing, or one required variable *)
UnsetChoices == {{}} \cup {{v} : v \in RequiredVars}

(* loadConfig: the merged configuration of a run, as far as the run has    *)
(* read it; unset are the required variables left unset                    *)
loadConfig(file, unset) ==
    [EXTERNAL_FEED_URL |->
        IF "EXTERNAL_FEED_URL" \in unset THEN Missing ELSE "https://upstream",
     FEED_FILE_NAME |->
        IF "FEED_FILE_NAME" \in unset THEN Missing ELSE "feed.xml",
     EXTERNAL_FEED_SOURCE |->
        IF "EXTERNAL_FEED_SOURCE" \in unset THEN Missing ELSE file.EXTERNAL_FEED_SOURCE,
     EXTERNAL_FEED_TYPE |->
        IF "EXTERNAL_FEED_TYPE" \in unset THEN Missing ELSE file.EXTERNAL_FEED_TYPE,
     EXTERNAL_FEED_PLATFORM |->
        IF "EXTERNAL_FEED_PLATFORM" \in unset THEN Missing ELSE "wordpress",
     PROFANITY_FILTER_ENABLED |-> UnreadFlag,
     FEED_ITEMS_PER_RUN |-> Unread,
     FEED_MAX_TOTAL_ITEMS |-> Unread]

(* a loader that asks for nothing *)
validateRequiredConfig_none(config) == {}

(* validateRequiredConfig: the required variables that are falsy *)
validateRequiredConfig(config) == {v \in RequiredVars : config[v] = Missing}

(* index.js 36: the error of a run whose configuration is incomplete *)
ConfigError == "Missing required configuration variables"

(* Rows written before the item_published_at / item_modified_at columns     *)
(* existed: both columns are NULL.  A legacy row is in a consistent state  *)
(* of its status; full_content is a nullable column.                       *)
LegacyKinds == {"pending", "pendingNoContent", "published", "skipped"}

LegacyPost(id) == [id |-> id, modified |-> 1]

LegacyRow(id, source, feedType, kind) ==
    LET content == cleanPostContent(LegacyPost(id))
    IN [content_hash |-> generateHash(id),
        source |-> source,
        guid |-> id,
        platform |-> "wordpress",
        feed_type |-> feedType,
        status |-> IF kind = "pendingNoContent" THEN "pending" ELSE kind,
        ingested_at |-> 1,
        published_at |-> IF kind = "published" THEN 1 ELSE Null,
        skipped_at |-> IF kind = "skipped" THEN 1 ELSE Null,
        skip_reason |-> IF kind = "skipped" THEN "profanity" ELSE NullStr,
        metadata |-> [id |-> id, modified |-> 1],
        full_content |-> IF kind = "pendingNoContent" THEN NullJson ELSE content,
        processed_data |-> IF kind = "published"
                           THEN normalizePost(content, feedType) ELSE NullJson,
        item_published_at |-> Null,
        item_modified_at |-> Null]

LegacyRows ==
    {LegacyRow(id, s, ft, k) : id \in Ids, s \in Sources, ft \in FeedTypes, k \in LegacyKinds}

(* the initial table: empty, or one legacy row *)
LegacyTables == {<<>>} \cup {<<r>> : r \in LegacyRows}

Init ==
    /\ table \in LegacyTables
    /\ now = 1
    /\ runs = 0
    /\ served = 0
    /\ run = [p \in Procs |-> IdleRun]
    /\ migration = Migrated

-----------------------------------------------------------------------------
(* Steps of one invocation p of runFeedConverter *)

(* index.js 27-58 and wordpress.js 191-203: configuration, connection,      *)
(* isNewSource, and the start of driver.ingest                             *)
StartRun(p) ==
    /\ run[p].pc = "idle"
    /\ runs < MaxRuns
    /\ \E file \in ConfigFiles, unset \in UnsetChoices :
          LET config == loadConfig(file, unset)
              missingVars == validateRequiredConfig(config)
          IN IF missingVars # {}
             THEN run' = [run EXCEPT ![p] =
                             [IdleRun EXCEPT
                                 !.pc = "failed",
                                 !.config = config,
                                 !.error = ConfigError]]
             ELSE run' = [run EXCEPT ![p] =
                             [IdleRun EXCEPT
                                 !.pc = "fetch",
                                 !.config = config,
                                 !.isNewSource = isNewSource(table, config),
                                 !.currentPage = 1,
                                 !.totalPages = 1]]
    /\ runs' = runs + 1
    /\ now' = now + 1
    /\ UNCHANGED <<table, served, migration>>

(* wordpress.js 204-214: fetchPosts of the current page; hdr = 0 stands for *)
(* a response without the x-wp-totalpages header                           *)
FetchPage(p) ==
    /\ run[p].pc = "fetch"
    /\ \E n \in 0..MaxPerPage, hdr \in 0..MaxPages :
          /\ served + n <= MaxPosts
          /\ served' = served + n
          /\ run' = [run EXCEPT
                        ![p].pc = "post",
                        ![p].remaining = n,
                        ![p].totalPages = IF hdr # 0 THEN hdr ELSE @]
    /\ UNCHANGED <<table, now, runs, migration>>

(* wordpress.js 217-238, database.js 111: the next post of the page and     *)
(* the lookup of insertItemDirect                                          *)
IngestLookup(p) ==
    /\ run[p].pc = "post"
    /\ run[p].remaining > 0
    /\ \E post \in UpstreamRecords :
          LET item == IngestItem(post)
          IN IF cleanPostContentThrows(post)
             THEN run' = [run EXCEPT ![p].pc = "failed", ![p].error = IngestTypeError]
             ELSE run' = [run EXCEPT
                             ![p].pc = "reconcile",
                             ![p].item = item,
                             ![p].dbContent =
                                 getItemByHash(table, item.content_hash,
                                               run[p].config.EXTERNAL_FEED_SOURCE)]
    /\ UNCHANGED <<table, now, runs, served, migration>>

(* database.js 113-121, wordpress.js 239-242: the write of insertItemDirect *)
Reconcile(p) ==
    /\ run[p].pc = "reconcile"
    /\ LET r == run[p]
           dup == /\ r.dbContent = NoRow
                  /\ ~unique_content_source(table, r.item.content_hash,
                                            r.config.EXTERNAL_FEED_SOURCE)
       IN IF dup
          THEN /\ run' = [run EXCEPT ![p].pc = "failed",
                                     ![p].error = "WordPress ingestion failed"]
               /\ UNCHANGED table
          ELSE /\ table' = insertItemDirect(table, r.item, r.config, r.dbContent, now)
               /\ run' = [run EXCEPT
                             ![p].pc = "post",
                             ![p].dbContent = NoRow,
                             ![p].remaining = @ - 1,
                             ![p].totalNew = IF r.dbContent = NoRow THEN @ + 1 ELSE @,
                             ![p].totalIngested = @ + 1]
    /\ UNCHANGED <<now, runs, served, migration>>

(* wordpress.js 217-243: one post of the page through insertItemDirect,    *)
(* lookup and write together (no other invocation runs in between)        *)
IngestPost(p) ==
    /\ run[p].pc = "post"
    /\ run[p].remaining > 0
    /\ \E post \in UpstreamRecords :
          LET item == IngestItem(post)
              dbContent == getItemByHash(table, item.content_hash,
                                         run[p].config.EXTERNAL_FEED_SOURCE)
          IN IF cleanPostContentThrows(post)
             THEN /\ run' = [run EXCEPT ![p].pc = "failed", ![p].error = IngestTypeError]
                  /\ UNCHANGED table
             ELSE /\ table' = insertItemDirect(table, item, run[p].config, dbContent, now)
                  /\ run' = [run EXCEPT
                                ![p].item = item,
                                ![p].remaining = @ - 1,
                                ![p].totalNew = IF dbContent = NoRow THEN @ + 1 ELSE @,
                                ![p].totalIngested = @ + 1]
    /\ UNCHANGED <<now, runs, served, migration>>

(* an ingest that stops an existing source after its first page *)
PageDone_firstPageOnly(p) ==
    /\ run[p].pc = "post"
    /\ run[p].remaining = 0
    /\ run' = IF run[p].currentPage + 1 <= run[p].totalPages /\ run[p].isNewSource
              THEN [run EXCEPT ![p].currentPage = @ + 1, ![p].item = NoItem,
                               ![p].pc = "fetch"]
              ELSE [run EXCEPT ![p].currentPage = 0, ![p].totalPages = 0,
                               ![p].item = NoItem, ![p].pc = "select"]
    /\ UNCHANGED <<table, now, runs, served, migration>>

(* wordpress.js 245-262: end of a page; next page or return from ingest *)
PageDone(p) ==
    /\ run[p].pc = "post"
    /\ run[p].remaining = 0
    /\ run' = IF run[p].currentPage + 1 <= run[p].totalPages
              THEN [run EXCEPT ![p].currentPage = @ + 1, ![p].item = NoItem,
                               ![p].pc = "fetch"]
              ELSE [run EXCEPT ![p].currentPage = 0, ![p].totalPages = 0,
                               ![p].item = NoItem, ![p].pc = "select"]
    /\ UNCHANGED <<table, now, runs, served, migration>>

(* index.js 65-88: the profanity list, the processing limit, getPendingItems *)
SelectPending(p) ==
    /\ run[p].pc = "select"
    /\ \E enabled \in BOOLEAN :
       \E perRun \in (IF run[p].isNewSource THEN {Unread} ELSE PerRunValues) :
       \E list \in (IF enabled THEN TermLists ELSE {{}}) :
          LET config == [run[p].config EXCEPT
                            !.PROFANITY_FILTER_ENABLED = IF enabled THEN "true" ELSE "false",
                            !.FEED_ITEMS_PER_RUN = perRun]
              limit == ProcessingLimit(run[p].isNewSource, config)
          IN \E rows \in getPendingItems(table, limit, config) :
                run' = [run EXCEPT
                           ![p].pc = "process",
                           ![p].config = config,
                           ![p].profanityList = list,
                           ![p].pendingItems = rows,
                           ![p].idx = 1]
    /\ UNCHANGED <<table, now, runs, served, migration>>

(* what fetchContent throws for a row without full_content, as the catch  *)
(* of the loop writes it into skip_reason                                  *)
ItemErrorReason == "error: WordPress content fetch failed"

(* a catch that only logs the error *)
CatchItemError_logOnly(tbl, item, t) == tbl

(* index.js 123-127: the catch of one iteration *)
CatchItemError(tbl, item, t) ==
    updateItemStatus(tbl, item.content_hash, item.source, "skipped",
                     ItemErrorReason, NullJson, t)

(* index.js 91-128: one iteration of the loop over pendingItems *)
ProcessItem(p) ==
    /\ run[p].pc = "process"
    /\ run[p].idx <= Len(run[p].pendingItems)
    /\ LET r == run[p]
           item == r.pendingItems[r.idx]
           dbItem == getItemByHash(table, item.content_hash, r.config.EXTERNAL_FEED_SOURCE)
           throws == dbItem = NoRow \/ dbItem.full_content = NullJson
           normalizedPost == normalizePost(dbItem.full_content, r.config.EXTERNAL_FEED_TYPE)
           isClean == IsClean(normalizedPost, r.config.PROFANITY_FILTER_ENABLED = "true",
                              r.profanityList)
       IN IF throws
          THEN /\ table' = CatchItemError(table, item, now)
               /\ run' = [run EXCEPT ![p].skippedCount = @ + 1, ![p].idx = @ + 1]
          ELSE IF isClean
          THEN /\ table' = updateItemStatus(table, item.content_hash, item.source, "published",
                                            NullStr, normalizedPost, now)
               /\ run' = [run EXCEPT
                             ![p].feedItems = Append(@, normalizedPost),
                             ![p].processedContentHashes = Append(@, item.content_hash),
                             ![p].processedCount = @ + 1,
                             ![p].idx = @ + 1]
          ELSE /\ table' = updateItemStatus(table, item.content_hash, item.source, "skipped",
                                            "profanity", NullJson, now)
               /\ run' = [run EXCEPT ![p].skippedCount = @ + 1, ![p].idx = @ + 1]
    /\ UNCHANGED <<now, runs, served, migration>>

(* index.js 135-223: getPublishedItems, the moving window, rendering.  A    *)
(* NULL processed_data among the feed items makes the comparator or the   *)
(* renderer throw a TypeError.                                             *)
Assemble(p) ==
    /\ run[p].pc = "process"
    /\ run[p].idx > Len(run[p].pendingItems)
    /\ LET r == run[p]
       IN \E maxTotal \in MaxTotalValues :
          \E existingPublishedItems \in
                getPublishedItems(table, PublishedFetchLimit, r.config, r.processedContentHashes) :
          LET existingItems == [i \in DOMAIN existingPublishedItems |->
                                   existingPublishedItems[i].processed_data]
              allFeedItems == r.feedItems \o existingItems
          IN IF NullJson \in SeqRange(allFeedItems)
             THEN run' = [run EXCEPT ![p].pc = "failed",
                                     ![p].config.FEED_MAX_TOTAL_ITEMS = maxTotal,
                                     ![p].error = "TypeError"]
             ELSE run' = [run EXCEPT
                             ![p].pc = "done",
                             ![p].config.FEED_MAX_TOTAL_ITEMS = maxTotal,
                             ![p].existingPublishedItems = existingPublishedItems,
                             ![p].finalFeedItems = MovingWindow(allFeedItems, maxTotal)]
    /\ UNCHANGED <<table, now, runs, served, migration>>

(* index.js 225-233: the invocation returns or rethrows; db.close() *)
Finish(p) ==
    /\ run[p].pc \in {"done", "failed"}
    /\ run' = [run EXCEPT ![p] = IdleRun]
    /\ UNCHANGED <<table, now, runs, served, migration>>

Step(p) ==
    \/ StartRun(p)
    \/ FetchPage(p)
    \/ IngestPost(p)
    \/ PageDone(p)
    \/ SelectPending(p)
    \/ ProcessItem(p)
    \/ Assemble(p)
    \/ Finish(p)

(* Serialized invocations, as the scheduler runs them: one at a time. *)
Next == Step(1)

Spec == Init /\ [][Next]_vars

(* Overlapping invocations (a cron slot that fires while the previous run  *)
(* is still in progress): while invocation 1 runs, invocation 2 goes       *)
(* through its ingestion, where the lookup and the write of                *)
(* insertItemDirect are separate statements; the behaviours are explored   *)
(* up to the end of the ingestion of invocation 2.                         *)
IngestOverlap(p) ==
    \/ StartRun(p)
    \/ FetchPage(p)
    \/ IngestLookup(p)
    \/ Reconcile(p)
    \/ PageDone(p)

NextOverlap == Step(1) \/ IngestOverlap(2)

(* The overlapping invocations start from the freshly created table. *)
InitOverlap ==
    /\ table = <<>>
    /\ now = 1
    /\ runs = 0
    /\ served = 0
    /\ run = [p \in Procs |-> IdleRun]
    /\ migration = Migrated

SpecOverlap == InitOverlap /\ [][NextOverlap]_vars

(* Runs over a store that can fail.  A call of the store client rejects    *)
(* when the store is unavailable; whether the next call succeeds is up to  *)
(* the store (a proxy in front of it keeps the connection open).           *)
StoreError == "connect ETIMEDOUT"
IngestStoreError == "WordPress ingestion failed: connect ETIMEDOUT"
FetchStoreErrorReason == "error: WordPress content fetch failed: connect ETIMEDOUT"
WriteStoreErrorReason == "error: connect ETIMEDOUT"

(* a store call outside the loop over pendingItems rejects: insertItemDirect *)
(* in ingest (wordpress.js 238, 264-267), getPendingItems (index.js 82),    *)
(* getPublishedItems (index.js 136); the error reaches the catch of         *)
(* runFeedConverter (index.js 225-227)                                      *)
StoreFailure(p) ==
    /\ \/ run[p].pc = "post" /\ run[p].remaining > 0
       \/ run[p].pc = "select"
       \/ run[p].pc = "process" /\ run[p].idx > Len(run[p].pendingItems)
    /\ run' = [run EXCEPT
                  ![p].pc = "failed",
                  ![p].error = IF run[p].pc = "post" THEN IngestStoreError ELSE StoreError]
    /\ UNCHANGED <<table, now, runs, served, migration>>

(* index.js 91-128: an iteration in which a store call inside the try      *)
(* rejects: getItemByHash in fetchContent (line 96), or the status write   *)
(* (113 after the pushes of 111-112, or 118); the catch (123-127) then     *)
(* writes the row as skipped, which succeeds if the store has recovered    *)
(* and rejects out of the loop if it has not.                              *)
ProcessItemStoreFailure(p) ==
    /\ run[p].pc = "process"
    /\ run[p].idx <= Len(run[p].pendingItems)
    /\ \E call \in {"getItemByHash", "updateItemStatus"}, recovered \in BOOLEAN :
          LET r == run[p]
              item == r.pendingItems[r.idx]
              dbItem == getItemByHash(table, item.content_hash, r.config.EXTERNAL_FEED_SOURCE)
              throws == dbItem = NoRow \/ dbItem.full_content = NullJson
              normalizedPost == normalizePost(dbItem.full_content, r.config.EXTERNAL_FEED_TYPE)
              isClean == IsClean(normalizedPost, r.config.PROFANITY_FILTER_ENABLED = "true",
                                 r.profanityList)
              pushed == call = "updateItemStatus" /\ isClean
              reason == IF call = "getItemByHash" THEN FetchStoreErrorReason
                        ELSE WriteStoreErrorReason
          IN /\ call = "updateItemStatus" => ~throws
             /\ IF recovered
                THEN /\ table' = updateItemStatus(table, item.content_hash, item.source,
                                                  "skipped", reason, NullJson, now)
                     /\ run' = [run EXCEPT
                                   ![p].feedItems =
                                       IF pushed THEN Append(@, normalizedPost) ELSE @,
                                   ![p].processedContentHashes =
                                       IF pushed THEN Append(@, item.content_hash) ELSE @,
                                   ![p].skippedCount = @ + 1,
                                   ![p].idx = @ + 1]
                ELSE /\ table' = table
                     /\ run' = [run EXCEPT
                                   ![p].feedItems =
                                       IF pushed THEN Append(@, normalizedPost) ELSE @,
                                   ![p].processedContentHashes =
                                       IF pushed THEN Append(@, item.content_hash) ELSE @,
                                   ![p].pc = "failed",
                                   ![p].error = StoreError]
    /\ UNCHANGED <<now, runs, served, migration>>

NextFailure == Step(1) \/ StoreFailure(1) \/ ProcessItemStoreFailure(1)

(* one invocation from every initial table *)
InitFailure ==
    /\ table \in LegacyTables
    /\ now = 1
    /\ runs = MaxRuns - 1
    /\ served = 0
    /\ run = [p \in Procs |-> IdleRun]
    /\ migration = Migrated

SpecFailure == InitFailure /\ [][NextFailure]_vars

(* One ingest on its own: driver.ingest from its call to its return.  The  *)
(* loop runs on as long as the upstream answers, so its steps are weakly   *)
(* fair.                                                                   *)
NextIngest ==
    \/ StartRun(1)
    \/ FetchPage(1)
    \/ IngestPost(1)
    \/ PageDone(1)

SpecIngest == Init /\ [][NextIngest]_vars /\ WF_vars(NextIngest)

-----------------------------------------------------------------------------
(* Publication over larger tables.  The behaviours start where a run has   *)
(* returned from ingest (index.js 59) over a table that earlier ingestion  *)
(* and publication have filled, and go through the publication of that    *)
(* run; over a large table they continue with one more complete run.       *)

WindowIds == {1, 2, 3}         \* post ids of the rows of a small table
StoreKinds == {"pending", "published", "skipped", "foreign"}

(* the configuration file of the other source *)
OtherFile(file) == CHOOSE g \in ConfigFiles : g # file

(* A row as insertItem and updateItemStatus leave it: ingested at t from    *)
(* the first revision of post id, pending, or published or skipped at t.   *)
(* A foreign row is a published row of the other source.                   *)
StoreRow(id, file, kind, t) ==
    LET owner == IF kind = "foreign" THEN OtherFile(file) ELSE file
        status == IF kind = "foreign" THEN "published" ELSE kind
        item == IngestItem([id |-> id, modified |-> 1])
        inserted == insertItem(<<>>, item, loadConfig(owner, {}), t)
    IN IF status = "pending" THEN inserted[1]
       ELSE IF status = "published"
       THEN updateItemStatus(inserted, item.content_hash, owner.EXTERNAL_FEED_SOURCE,
                             "published", NullStr,
                             normalizePost(item.full_content, owner.EXTERNAL_FEED_TYPE), t)[1]
       ELSE updateItemStatus(inserted, item.content_hash, owner.EXTERNAL_FEED_SOURCE,
                             "skipped", "profanity", NullJson, t)[1]

(* small tables: up to three rows of distinct posts in any order of their  *)
(* publish dates; ingested_at does not decrease along the table            *)
SmallStores(file) ==
    UNION {{[i \in 1..n |-> StoreRow(ids[i], file, kinds[i], times[i])] :
               ids \in {f \in [1..n -> WindowIds] : \A a, b \in 1..n : a # b => f[a] # f[b]},
               kinds \in [1..n -> StoreKinds],
               times \in {f \in [1..n -> {1, 2}] : \A a, b \in 1..n : a < b => f[a] <= f[b]}} :
           n \in 0..Cardinality(WindowIds)}

(* large tables: more rows than the onboarding limit and than the fetch    *)
(* limit of the feed window, all pending or all published                  *)
BigStores(file) ==
    {[i \in 1..n |-> StoreRow(i, file, kind, i)] :
        n \in (MaxRows - 1)..MaxRows, kind \in {"pending", "published"}}

(* isNewSource was read before ingest: a source that was new has only the  *)
(* pending rows this ingest inserted, one that was not new has rows        *)
StoreOfSource(tbl, file, newSource) ==
    LET own == {i \in 1..Len(tbl) : tbl[i].source = file.EXTERNAL_FEED_SOURCE}
    IN IF newSource THEN \A i \in own : tbl[i].status = "pending"
       ELSE own # {}

InitPublish ==
    \E file \in ConfigFiles, newSource \in BOOLEAN :
        /\ table \in SmallStores(file) \cup BigStores(file)
        /\ StoreOfSource(table, file, newSource)
        /\ now = MaxRows + 1
        /\ runs = IF Len(table) >= MaxRows - 1 THEN MaxRuns - 1 ELSE MaxRuns
        /\ served = MaxPosts - 1
        /\ run = [p \in Procs |->
                     IF p = 1
                     THEN [IdleRun EXCEPT !.pc = "select",
                                          !.config = loadConfig(file, {}),
                                          !.isNewSource = newSource]
                     ELSE IdleRun]
        /\ migration = Migrated

NextPublish == Step(1)

SpecPublish == InitPublish /\ [][NextPublish]_vars

(* Overlapping invocations over a table in which both sources have a row  *)
(* of the same upstream post, published by earlier runs.                   *)
SharedStores ==
    {<<StoreRow(1, f, "published", 1), StoreRow(1, OtherFile(f), "published", 1)>> :
        f \in ConfigFiles}

InitShared ==
    /\ table \in SharedStores
    /\ now = 2
    /\ runs = 0
    /\ served = 0
    /\ run = [p \in Procs |-> IdleRun]
    /\ migration = Migrated

SpecShared == InitShared /\ [][NextOverlap]_vars

(* Repeated runs of one source.  The upstream changes during the runs    *)
(* that MaxRuns counts; after them it serves what the store already has,  *)
(* so that the ingest of a run inserts and updates nothing                *)
(* (insertItemDirect returns at database.js 117-121 for each record) and  *)
(* the run goes on to publication.  A run that finds no pending row of    *)
(* the source changes no row and is left out.  The scheduler starts the   *)
(* next run when one has ended and every step of a run is taken: the      *)
(* steps are weakly fair.                                                  *)
DrainFile == CHOOSE f \in ConfigFiles : f.EXTERNAL_FEED_SOURCE = "s1"
DrainConfig == loadConfig(DrainFile, {})

StartSettledRun(p) ==
    /\ run[p].pc = "idle"
    /\ runs = MaxRuns
    /\ \E i \in 1..Len(table) :
          /\ table[i].source = DrainConfig.EXTERNAL_FEED_SOURCE
          /\ table[i].feed_type = DrainConfig.EXTERNAL_FEED_TYPE
          /\ table[i].status = "pending"
    /\ run' = [run EXCEPT ![p] =
                  [IdleRun EXCEPT !.pc = "select",
                                  !.config = DrainConfig,
                                  !.isNewSource = isNewSource(table, DrainConfig)]]
    /\ now' = now + 1
    /\ UNCHANGED <<table, runs, served, migration>>

(* up to two rows of the source, pending or published *)
DrainStores ==
    {t \in SmallStores(DrainFile) :
        /\ Len(t) \in 1..2
        /\ \A i \in 1..Len(t) :
              /\ t[i].source = DrainConfig.EXTERNAL_FEED_SOURCE
              /\ t[i].status # "skipped"}

InitDrain ==
    /\ table \in DrainStores
    /\ now = 3
    /\ runs = MaxRuns - 1
    /\ served = MaxPosts - 1
    /\ run = [p \in Procs |-> IdleRun]
    /\ migration = Migrated

NextDrain == Step(1) \/ StartSettledRun(1)

SpecDrain == InitDrain /\ [][NextDrain]_vars /\ WF_vars(NextDrain)

(* Publication of a slideshow source over bodies of every structure: the  *)
(* store holds one pending row, or two pending rows of the same body.     *)
MaxNodes == 4

(* the word that the node at position i of a body carries *)
NodeWords == <<"w1", "w2", "w3", "w4", "w5", "w6">>

NodeShapes(i) ==
    {Figure("large", "src", {NodeWords[i]}), Figure("full", "lazy", {NodeWords[i]}),
     Figure("large", NoImg, {NodeWords[i]}), Figure("full", "nourl", {NodeWords[i]}),
     Heading({NodeWords[i]}), Para({NodeWords[i]})}

Bodies ==
    UNION {{b \in [1..n -> UNION {NodeShapes(i) : i \in 1..n}] :
               \A i \in 1..n : b[i] \in NodeShapes(i)} : n \in 1..MaxNodes}

SegmentFile == [EXTERNAL_FEED_SOURCE |-> "s2", EXTERNAL_FEED_TYPE |-> "slideshow"]

SegmentRow(id, body) ==
    insertItem(<<>>,
               [IngestItem([id |-> id, modified |-> 1]) EXCEPT !.full_content.content = body],
               loadConfig(SegmentFile, {}), 1)[1]

InitSegment ==
    \E body \in Bodies :
        /\ table \in {<<SegmentRow(1, body)>>, <<SegmentRow(1, body), SegmentRow(2, body)>>}
        /\ now = 2
        /\ runs = MaxRuns
        /\ served = MaxPosts
        /\ run = [p \in Procs |->
                     IF p = 1
                     THEN [IdleRun EXCEPT !.pc = "select",
                                          !.config = loadConfig(SegmentFile, {}),
                                          !.isNewSource = FALSE]
                     ELSE IdleRun]
        /\ migration = Migrated

NextSegment ==
    \/ SelectPending(1)
    \/ ProcessItem(1)
    \/ Assemble(1)
    \/ Finish(1)

SpecSegment == InitSegment /\ [][NextSegment]_vars

(* Publication under every value of the content type flag: the run has    *)
(* returned from ingest over the pending rows that ingest inserted for    *)
(* its source.                                                             *)
FlagFiles ==
    {[EXTERNAL_FEED_SOURCE |-> "s1", EXTERNAL_FEED_TYPE |-> f] : f \in ContentTypeFlags}

FlagStores(file) ==
    UNION {{[i \in 1..n |->
                insertItem(<<>>, IngestItem([id |-> ids[i], modified |-> mods[i]]),
                           loadConfig(file, {}), 1)[1]] :
               ids \in {f \in [1..n -> Ids] : \A a, b \in 1..n : a # b => f[a] # f[b]},
               mods \in [1..n -> Mods]} :
           n \in 1..2}

InitNormalize ==
    \E file \in FlagFiles, newSource \in BOOLEAN :
        /\ table \in FlagStores(file)
        /\ now = 2
        /\ runs = MaxRuns
        /\ served = MaxPosts
        /\ run = [p \in Procs |->
                     IF p = 1
                     THEN [IdleRun EXCEPT !.pc = "select",
                                          !.config = loadConfig(file, {}),
                                          !.isNewSource = newSource]
                     ELSE IdleRun]
        /\ migration = Migrated

NextNormalize ==
    \/ SelectPending(1)
    \/ ProcessItem(1)
    \/ Assemble(1)
    \/ Finish(1)

SpecNormalize == InitNormalize /\ [][NextNormalize]_vars

-----------------------------------------------------------------------------
(* Vocabulary of the properties *)

Config(p) == run[p].config

(* the row of invocation p's source with the given content hash *)
RowOf(tbl, p, contentHash) == getItemByHash(tbl, contentHash, Config(p).EXTERNAL_FEED_SOURCE)

(* the step is one pass of invocation 1 through insertItemDirect *)
IngestStep ==
    /\ run[1].pc = "post"
    /\ run'[1].pc = "post"
    /\ run'[1].remaining = run[1].remaining - 1

(* the step is getPendingItems of invocation 1 *)
SelectStep == run[1].pc = "select" /\ run'[1].pc = "process"

(* the step is one iteration of the loop over pendingItems *)
ProcessStep == run[1].pc = "process" /\ run'[1].pc = "process"

Min(a, b) == IF a <= b THEN a ELSE b

(* r is a row of the (source, feed_type) of the given configuration *)
Own(config, r) ==
    /\ r.source = config.EXTERNAL_FEED_SOURCE
    /\ r.feed_type = config.EXTERNAL_FEED_TYPE

(* the indices of the pending rows of the configuration's (source, feed_type) *)
PendingIdx(tbl, config) ==
    {i \in 1..Len(tbl) : Own(config, tbl[i]) /\ tbl[i].status = "pending"}

(* the content hashes of the rows invocation p has published in this run: *)
(* NOW() of this run is later than every earlier timestamp                 *)
PublishedThisRun(p) ==
    {table[i].content_hash : i \in {j \in 1..Len(table) :
        /\ Own(Config(p), table[j])
        /\ table[j].status = "published"
        /\ table[j].published_at = now}}

(* the combined feed candidates: new items, then the fetched existing ones *)
Candidates(p) ==
    run[p].feedItems \o [i \in 1..Len(run[p].existingPublishedItems) |->
                            run[p].existingPublishedItems[i].processed_data]

(* the normalized form of the k-th selected pending item of invocation p *)
Normalized(p, k) ==
    normalizePost(run[p].pendingItems[k].full_content, Config(p).EXTERNAL_FEED_TYPE)

-----------------------------------------------------------------------------
(* C1: at every moment, also when invocations overlap, the table holds at  *)
(* most one row for each pair (content_hash, source).                      *)
C1_OneRowPerKey ==
    \A i, j \in 1..Len(table) :
        (table[i].content_hash = table[j].content_hash /\ table[i].source = table[j].source)
            => i = j

(* an overlapping invocation tried to insert a key that the other one had  *)
(* inserted after its lookup, and the same id was ingested more than once  *)
C1_Witness ==
    /\ \E p \in Procs : run[p].error = "WordPress ingestion failed"
    /\ Len(table) >= 1

(* C2 (as claimed): at the end of a run with the filter enabled, every     *)
(* selected item whose normalized text contains a listed term is skipped   *)
(* with reason "profanity" and is in neither feedItems nor the final feed. *)
C2_ProfaneItemSkipped ==
    (run[1].pc = "done" /\ Config(1).PROFANITY_FILTER_ENABLED = "true")
        => \A k \in 1..Len(run[1].pendingItems) :
              LET item == run[1].pendingItems[k]
                  row == RowOf(table, 1, item.content_hash)
              IN (item.full_content # NullJson
                  /\ hasProfanity(Normalized(1, k), run[1].profanityList))
                    => /\ row.status = "skipped"
                       /\ row.skip_reason = "profanity"
                       /\ Normalized(1, k) \notin SeqRange(run[1].feedItems)
                       /\ Normalized(1, k) \notin SeqRange(run[1].finalFeedItems)

(* C3 (as claimed): at the end of a run, every selected item that          *)
(* normalizes and contains no listed term is published, with               *)
(* processed_data its normalized form and published_at set, and is in the  *)
(* run's published feed set.                                               *)
C3_CleanItemPublished ==
    run[1].pc = "done"
        => \A k \in 1..Len(run[1].pendingItems) :
              LET item == run[1].pendingItems[k]
                  row == RowOf(table, 1, item.content_hash)
              IN (item.full_content # NullJson
                  /\ ~hasProfanity(Normalized(1, k), run[1].profanityList))
                    => /\ row.status = "published"
                       /\ row.processed_data = Normalized(1, k)
                       /\ row.published_at # Null
                       /\ Normalized(1, k) \in SeqRange(run[1].feedItems)

(* C4 (as claimed): when ingest meets a row whose stored item_modified_at  *)
(* is NULL and the upstream modified timestamp differs, the row is pending *)
(* after the reconciliation.                                               *)
C4_PristineRowReset ==
    [][IngestStep =>
          LET item == run'[1].item
              dbContent == RowOf(table, 1, item.content_hash)
          IN (dbContent # NoRow
              /\ dbContent.item_modified_at = Null
              /\ item.item_modified_at # dbContent.item_modified_at)
                => RowOf(table', 1, item.content_hash).status = "pending"]_vars

(* C5 (as claimed): when ingest meets a published or skipped row whose     *)
(* stored item_modified_at is non-NULL and differs from the upstream one,  *)
(* the row keeps its status, and full_content, metadata, item_published_at *)
(* and item_modified_at take the upstream values.                          *)
C5_DecidedRowKeepsStatus ==
    [][IngestStep =>
          LET item == run'[1].item
              dbContent == RowOf(table, 1, item.content_hash)
              after == RowOf(table', 1, item.content_hash)
          IN (dbContent # NoRow
              /\ dbContent.status \in {"published", "skipped"}
              /\ dbContent.item_modified_at # Null
              /\ item.item_modified_at # dbContent.item_modified_at)
                => /\ after.status = dbContent.status
                   /\ after.full_content = item.full_content
                   /\ after.metadata = item.metadata
                   /\ after.item_published_at = item.item_published_at
                   /\ after.item_modified_at = item.item_modified_at]_vars

(* C5 (amended): when ingest meets a published or skipped row whose stored *)
(* item_modified_at is non-NULL and differs from the upstream one, the row *)
(* is reset to pending, and full_content, metadata, item_published_at and  *)
(* item_modified_at take the upstream values.                              *)
C5_DecidedRowResetToPending ==
    [][IngestStep =>
          LET item == run'[1].item
              dbContent == RowOf(table, 1, item.content_hash)
              after == RowOf(table', 1, item.content_hash)
          IN (dbContent # NoRow
              /\ dbContent.status \in {"published", "skipped"}
              /\ dbContent.item_modified_at # Null
              /\ item.item_modified_at # dbContent.item_modified_at)
                => /\ after.status = "pending"
                   /\ after.full_content = item.full_content
                   /\ after.metadata = item.metadata
                   /\ after.item_published_at = item.item_published_at
                   /\ after.item_modified_at = item.item_modified_at]_vars

(* ingest has just rewritten a row that had been published or skipped: it  *)
(* is pending, still carries the timestamp of its decision, and holds the  *)
(* upstream values of the item                                             *)
C5_Witness ==
    /\ run[1].pc = "post"
    /\ run[1].item # NoItem
    /\ LET row == RowOf(table, 1, run[1].item.content_hash)
       IN /\ row # NoRow
          /\ row.status = "pending"
          /\ (row.published_at # Null \/ row.skipped_at # Null)
          /\ row.item_modified_at = run[1].item.item_modified_at
          /\ row.full_content = run[1].item.full_content

C7_PublishedHasData ==
    \A i \in 1..Len(table) :
        table[i].status = "published"
            => (table[i].processed_data # NullJson /\ table[i].published_at # Null)

(* C8 (as claimed): every skipped row has a skip_reason and skipped_at. *)
C8_SkippedHasReason ==
    \A i \in 1..Len(table) :
        table[i].status = "skipped"
            => (table[i].skip_reason # NullStr /\ table[i].skipped_at # Null)

(* C9 (as claimed): every pending row has processed_data, published_at,    *)
(* skip_reason and skipped_at unset.                                       *)
C9_PendingIsBlank ==
    \A i \in 1..Len(table) :
        table[i].status = "pending"
            => /\ table[i].processed_data = NullJson
               /\ table[i].published_at = Null
               /\ table[i].skip_reason = NullStr
               /\ table[i].skipped_at = Null

(* C10 (as claimed): no row has both published_at and skipped_at set. *)
C10_TimestampsExclusive ==
    \A i \in 1..Len(table) :
        ~(table[i].published_at # Null /\ table[i].skipped_at # Null)

(* C11 (as claimed): a row has a skip_reason only if its status is skipped. *)
C11_SkipReasonOnlyIfSkipped ==
    \A i \in 1..Len(table) :
        table[i].skip_reason # NullStr => table[i].status = "skipped"

(* C12 (as claimed): one pass of ingest through insertItemDirect for the   *)
(* item with content hash h under source s leaves every row whose key is   *)
(* not (h, s) unchanged, and changes no row's content_hash.                *)
C12_ReconciliationScopedToKey ==
    [][IngestStep =>
          LET item == run'[1].item
              source == Config(1).EXTERNAL_FEED_SOURCE
          IN /\ Len(table') >= Len(table)
             /\ \A i \in 1..Len(table) :
                   /\ table'[i].content_hash = table[i].content_hash
                   /\ ~(table[i].content_hash = item.content_hash
                        /\ table[i].source = source)
                         => table'[i] = table[i]]_vars

(* C13: no step removes a row or changes the ingested_at of an existing    *)
(* row, and a row that a step inserts has the time of its insertion as     *)
(* ingested_at.                                                            *)
C13_IngestedAtImmutable ==
    [][/\ Len(table') >= Len(table)
       /\ \A i \in 1..Len(table) : table'[i].ingested_at = table[i].ingested_at
       /\ \A i \in (Len(table) + 1)..Len(table') : table'[i].ingested_at = now]_vars

(* a row ingested in an earlier run has since been rewritten by a          *)
(* reconciliation update and then published or skipped                     *)
C13_Witness ==
    \E i \in 1..Len(table) :
        /\ table[i].item_modified_at # Null
        /\ table[i].ingested_at < now
        /\ (table[i].published_at = now \/ table[i].skipped_at = now)

(* C14: the final feed of a run has at most FEED_MAX_TOTAL_ITEMS items. *)
C14_FeedWithinMaxTotal ==
    run[1].pc = "done"
        => Len(run[1].finalFeedItems) <= Config(1).FEED_MAX_TOTAL_ITEMS

(* a run has ended whose new and existing items together exceeded the      *)
(* maximum, and its feed is cut to the maximum                             *)
C14_Witness ==
    /\ run[1].pc = "done"
    /\ Len(run[1].feedItems) >= 1
    /\ Len(run[1].existingPublishedItems) >= 1
    /\ Len(Candidates(1)) > Config(1).FEED_MAX_TOTAL_ITEMS
    /\ Len(run[1].finalFeedItems) = Config(1).FEED_MAX_TOTAL_ITEMS

(* C15: when the combined candidates are more than FEED_MAX_TOTAL_ITEMS,   *)
(* the final feed is that many distinct candidates in descending pubDate   *)
(* order, and no candidate left out is more recent than one kept.          *)
C15_WindowKeepsMostRecent ==
    (run[1].pc = "done" /\ Len(Candidates(1)) > Config(1).FEED_MAX_TOTAL_ITEMS)
        => LET final == run[1].finalFeedItems
               cand == SeqRange(Candidates(1))
           IN /\ Len(final) = Config(1).FEED_MAX_TOTAL_ITEMS
              /\ \A a, b \in 1..Len(final) :
                    a < b => (final[a] # final[b] /\ final[a].pubDate >= final[b].pubDate)
              /\ SeqRange(final) \subseteq cand
              /\ \A c \in cand \ SeqRange(final) :
                    \A a \in 1..Len(final) : c.pubDate <= final[a].pubDate

(* a run has ended with three candidates of which the two most recent are  *)
(* not the first two of the combined list                                  *)
C15_Witness ==
    /\ run[1].pc = "done"
    /\ Len(Candidates(1)) >= 3
    /\ Len(run[1].feedItems) >= 1
    /\ Len(run[1].finalFeedItems) = 2
    /\ run[1].finalFeedItems # SubSeq(Candidates(1), 1, 2)

C17_ExistingExcludesNew ==
    run[1].pc = "done"
        => LET existing == run[1].existingPublishedItems
               hashes == run[1].processedContentHashes
                            \o [i \in 1..Len(existing) |-> existing[i].content_hash]
           IN /\ \A k \in 1..Len(existing) :
                    /\ existing[k] \in SeqRange(table)
                    /\ existing[k].status = "published"
                    /\ Own(Config(1), existing[k])
                    /\ existing[k].content_hash \notin PublishedThisRun(1)
              /\ SeqRange(run[1].processedContentHashes) = PublishedThisRun(1)
              /\ \A a, b \in 1..Len(hashes) : a # b => hashes[a] # hashes[b]

(* a run has ended that published an item, fetched an existing one, and    *)
(* left aside a published row of the other source                          *)
C17_Witness ==
    /\ run[1].pc = "done"
    /\ Len(run[1].processedContentHashes) >= 1
    /\ Len(run[1].existingPublishedItems) >= 1
    /\ \E i \in 1..Len(table) :
          table[i].status = "published" /\ ~Own(Config(1), table[i])

(* C18: getPendingItems returns min(limit, number of pending rows) pending *)
(* rows of the run's (source, feed_type), in ascending ingested_at order,  *)
(* and no pending row left out is older than one returned; the loop then   *)
(* decides the returned rows one after the other in that order, and the    *)
(* feed is assembled only when all of them are decided.                    *)
C18_OldestPendingFirst ==
    [][/\ SelectStep =>
             LET sel == run'[1].pendingItems
                 config == run'[1].config
                 pending == PendingIdx(table, config)
                 limit == IF run[1].isNewSource THEN OnboardingLimit
                          ELSE config.FEED_ITEMS_PER_RUN
             IN /\ Len(sel) = Min(limit, Cardinality(pending))
                /\ \A k \in 1..Len(sel) : \E j \in pending : sel[k] = table[j]
                /\ \A a, b \in 1..Len(sel) :
                      a < b => (sel[a] # sel[b] /\ sel[a].ingested_at <= sel[b].ingested_at)
                /\ \A j \in pending :
                      table[j] \notin SeqRange(sel)
                         => \A k \in 1..Len(sel) : sel[k].ingested_at <= table[j].ingested_at
                /\ run'[1].idx = 1
       /\ ProcessStep =>
             LET item == run[1].pendingItems[run[1].idx]
             IN /\ run'[1].idx = run[1].idx + 1
                /\ run'[1].pendingItems = run[1].pendingItems
                /\ RowOf(table, 1, item.content_hash).status = "pending"
                /\ RowOf(table', 1, item.content_hash).status \in {"published", "skipped"}
       /\ (run[1].pc = "process" /\ run'[1].pc \in {"done", "failed"})
             => run[1].idx = Len(run[1].pendingItems) + 1]_vars

(* the loop has decided two selected rows, the older one first, and a      *)
(* newer pending row of the same source was left for a later run           *)
C18_Witness ==
    /\ run[1].pc = "process"
    /\ Len(run[1].pendingItems) = 2
    /\ run[1].idx = 3
    /\ run[1].pendingItems[1].ingested_at < run[1].pendingItems[2].ingested_at
    /\ \E j \in PendingIdx(table, Config(1)) :
          table[j].ingested_at >= run[1].pendingItems[2].ingested_at

(* C19: isNewSource is whether the (source, platform, feed_type) of the    *)
(* run has no row when the run starts, ingest does not change it, and the  *)
(* number of rows selected for processing is limited by 20 when it is true *)
(* and by FEED_ITEMS_PER_RUN when it is false.                             *)
C19_OnboardingLimit ==
    [][/\ (run[1].pc = "idle" /\ run'[1].pc = "fetch") =>
             run'[1].isNewSource =
                (\A i \in 1..Len(table) :
                    ~(/\ table[i].source = run'[1].config.EXTERNAL_FEED_SOURCE
                      /\ table[i].platform = run'[1].config.EXTERNAL_FEED_PLATFORM
                      /\ table[i].feed_type = run'[1].config.EXTERNAL_FEED_TYPE))
       /\ (run[1].pc \in {"fetch", "post"}) => run'[1].isNewSource = run[1].isNewSource
       /\ SelectStep =>
             LET pending == Cardinality(PendingIdx(table, run'[1].config))
             IN Len(run'[1].pendingItems) =
                   IF run[1].isNewSource
                   THEN (IF pending <= 20 THEN pending ELSE 20)
                   ELSE Min(run'[1].config.FEED_ITEMS_PER_RUN, pending)]_vars

(* a run on a source that was new has more than 20 pending rows after its  *)
(* ingest and has selected 20 of them                                      *)
C19_Witness ==
    /\ run[1].pc = "process"
    /\ run[1].isNewSource
    /\ run[1].idx = 1
    /\ Cardinality(PendingIdx(table, Config(1))) > 20
    /\ Len(run[1].pendingItems) = 20

(* C20: ingest starts at page 1; the page number stays the same while a    *)
(* page is fetched and its posts are ingested; at the end of a page the    *)
(* loop goes on to the next page number exactly when that number is at     *)
(* most the total the upstream reported, whether or not the source is new, *)
(* and returns otherwise; and every ingest that has started returns.       *)
C20_PagesInOrderUntilTotal ==
    /\ [][/\ (run[1].pc = "idle" /\ run'[1].pc = "fetch") => run'[1].currentPage = 1
          /\ (run[1].pc = "fetch" /\ run'[1].pc = "post")
                => run'[1].currentPage = run[1].currentPage
          /\ IngestStep => run'[1].currentPage = run[1].currentPage
          /\ (run[1].pc = "post" /\ run'[1].pc = "fetch")
                => /\ run[1].remaining = 0
                   /\ run'[1].currentPage = run[1].currentPage + 1
                   /\ run'[1].currentPage <= run[1].totalPages
          /\ (run[1].pc = "post" /\ run'[1].pc = "select")
                => /\ run[1].remaining = 0
                   /\ run[1].currentPage + 1 > run[1].totalPages]_vars
    /\ (run[1].pc = "fetch") ~> (run[1].pc \in {"select", "failed"})

(* the ingest of a source that already had rows has fetched and ingested   *)
(* a page after the first, and that page is the last the upstream reports  *)
C20_Witness ==
    /\ run[1].pc = "post"
    /\ ~run[1].isNewSource
    /\ run[1].currentPage >= 2
    /\ run[1].remaining = 0
    /\ run[1].item # NoItem
    /\ run[1].currentPage + 1 > run[1].totalPages

(* C21: ingest starts its two counters at 0; every upstream record adds 1  *)
(* to totalIngested, and adds 1 to totalNew exactly when the table had no  *)
(* row (content_hash, source) for it, in which case one pending row with   *)
(* that key is appended and otherwise no row is added; a page ends when    *)
(* all its records are counted, so the counters ingest returns are the     *)
(* number of records the upstream served and the number of rows inserted.  *)
C21_IngestCounts ==
    /\ [][/\ (run[1].pc = "idle" /\ run'[1].pc = "fetch")
                => run'[1].totalIngested = 0 /\ run'[1].totalNew = 0
          /\ IngestStep =>
                LET h == run'[1].item.content_hash
                    s == run[1].config.EXTERNAL_FEED_SOURCE
                    absent == \A i \in 1..Len(table) :
                                 ~(table[i].content_hash = h /\ table[i].source = s)
                IN /\ run'[1].totalIngested = run[1].totalIngested + 1
                   /\ run'[1].totalNew = run[1].totalNew + (IF absent THEN 1 ELSE 0)
                   /\ absent => /\ Len(table') = Len(table) + 1
                                /\ table'[Len(table')].content_hash = h
                                /\ table'[Len(table')].source = s
                                /\ table'[Len(table')].status = "pending"
                   /\ ~absent => Len(table') = Len(table)
          /\ (run[1].pc \in {"fetch", "post"} /\ ~IngestStep)
                => /\ run'[1].totalIngested = run[1].totalIngested
                   /\ run'[1].totalNew = run[1].totalNew
                   /\ table' = table]_vars
    /\ [](run[1].pc \in {"fetch", "post", "select"}
            => /\ run[1].totalIngested + run[1].remaining = served
               /\ run[1].totalNew =
                     Cardinality({i \in 1..Len(table) :
                         /\ table[i].source = Config(1).EXTERNAL_FEED_SOURCE
                         /\ table[i].ingested_at = now}))

(* ingest has returned for a source that had no rows: the upstream served  *)
(* distinct records over more than one page, all are counted as new, and   *)
(* that many pending rows of the source exist                              *)
C21_Witness ==
    /\ run[1].pc = "select"
    /\ run[1].isNewSource
    /\ run[1].totalNew >= 2
    /\ run[1].totalIngested = run[1].totalNew
    /\ Cardinality(PendingIdx(table, Config(1))) = run[1].totalNew

(* C22: every record of a page, the malformed one included, is counted as  *)
(* seen and the loop goes on with the rest of the page: the step that      *)
(* handles a record leaves ingest in its loop with one record less to go,  *)
(* totalIngested one higher, and no error raised out of ingest.            *)
C22_MalformedRecordIsolated ==
    [][(run[1].pc = "post" /\ run[1].remaining > 0 /\ run'[1] # run[1])
          => /\ run'[1].pc = "post"
             /\ run'[1].remaining = run[1].remaining - 1
             /\ run'[1].totalIngested = run[1].totalIngested + 1
             /\ run'[1].error # IngestTypeError]_vars

(* C23: when fetchContent throws for a selected row, the iteration leaves  *)
(* that row skipped with the error as its skip_reason and skipped_at set,  *)
(* adds nothing to the feed items or to the published hashes, counts the   *)
(* row as skipped, and the loop goes on with the next selected row.        *)
C23_ItemErrorSkipsRow ==
    [][ProcessStep =>
          LET item == run[1].pendingItems[run[1].idx]
              before == RowOf(table, 1, item.content_hash)
              after == RowOf(table', 1, item.content_hash)
          IN before.full_content = NullJson
                => /\ after.status = "skipped"
                   /\ after.skip_reason = ItemErrorReason
                   /\ after.skipped_at = now
                   /\ run'[1].feedItems = run[1].feedItems
                   /\ run'[1].processedContentHashes = run[1].processedContentHashes
                   /\ run'[1].skippedCount = run[1].skippedCount + 1
                   /\ run'[1].processedCount = run[1].processedCount
                   /\ run'[1].pendingItems = run[1].pendingItems
                   /\ run'[1].idx = run[1].idx + 1]_vars

(* the first of two selected rows had no full_content and was skipped with *)
(* the error, and the loop went on and published the second                *)
C23_Witness ==
    /\ run[1].pc = "process"
    /\ Len(run[1].pendingItems) = 2
    /\ run[1].idx = 3
    /\ run[1].pendingItems[1].full_content = NullJson
    /\ RowOf(table, 1, run[1].pendingItems[1].content_hash).skip_reason = ItemErrorReason
    /\ RowOf(table, 1, run[1].pendingItems[2].content_hash).status = "published"
    /\ Len(run[1].feedItems) = 1

(* C24: a failure of a store call aborts the run instead of being handled *)
(* as the error of an item: no row ever carries the failure of a store     *)
(* call as its skip_reason.                                                *)
C24_StoreFailureAbortsRun ==
    \A i \in 1..Len(table) :
        table[i].skip_reason \notin {FetchStoreErrorReason, WriteStoreErrorReason}

C26_MissingConfigFailsFast ==
    /\ [][/\ (run[1].pc = "idle" /\ run'[1].pc # "idle") =>
                ((\E v \in RequiredVars : run'[1].config[v] = Missing)
                    => /\ run'[1].pc = "failed"
                       /\ run'[1].error = ConfigError
                       /\ run'[1] = [IdleRun EXCEPT !.pc = "failed",
                                                    !.config = run'[1].config,
                                                    !.error = ConfigError]
                       /\ table' = table)
          /\ run[1].error = ConfigError =>
                (table' = table /\ run'[1].pc = "idle")]_vars
    /\ [](run[1].pc \in {"fetch", "post", "select", "process", "done"}
            => \A v \in RequiredVars : run[1].config[v] # Missing)

(* after a run that filled the table, an invocation without FEED_FILE_NAME *)
(* has failed                                                              *)
C26_Witness ==
    /\ run[1].pc = "failed"
    /\ run[1].error = ConfigError
    /\ run[1].config.FEED_FILE_NAME = Missing
    /\ Len(table) >= 2

(* C27: whenever the status of a row changes, either the row was pending   *)
(* and an iteration of the publication loop made it published or skipped,  *)
(* or the row was published or skipped and a reconciliation of ingest      *)
(* reset it to pending.                                                    *)
C27_StatusStateMachine ==
    [][\A i \in 1..Len(table) :
          table'[i].status # table[i].status
             => \/ /\ table[i].status = "pending"
                   /\ table'[i].status \in {"published", "skipped"}
                   /\ ProcessStep
                \/ /\ table[i].status \in {"published", "skipped"}
                   /\ table'[i].status = "pending"
                   /\ IngestStep]_vars

(* C28: when an invocation writes an item whose key (content_hash, source) *)
(* is not in the table, a pending row with that key is appended and every  *)
(* row that was there stays as it was, whether or not rows of other        *)
(* sources carry the same content_hash.                                    *)
C28_OneRowPerSource ==
    [][\A p \in Procs :
          (\/ run[p].pc = "reconcile" /\ run'[p].pc # "reconcile"
           \/ /\ run[p].pc = "post"
              /\ run'[p].pc = "post"
              /\ run'[p].remaining = run[p].remaining - 1)
             => LET h == IF run[p].pc = "reconcile" THEN run[p].item.content_hash
                         ELSE run'[p].item.content_hash
                    s == run[p].config.EXTERNAL_FEED_SOURCE
                    absent == \A i \in 1..Len(table) :
                                 ~(table[i].content_hash = h /\ table[i].source = s)
                IN absent => /\ Len(table') = Len(table) + 1
                             /\ table'[Len(table')].content_hash = h
                             /\ table'[Len(table')].source = s
                             /\ table'[Len(table')].status = "pending"
                             /\ \A i \in 1..Len(table) : table'[i] = table[i]]_vars

(* the second invocation has inserted its row for an item of which the     *)
(* other source already had a row                                          *)
C28_Witness ==
    /\ run[2].pc = "post"
    /\ run[2].totalNew >= 1
    /\ \E i, j \in 1..Len(table) :
          /\ i < j
          /\ table[i].content_hash = table[j].content_hash
          /\ table[i].source # table[j].source
          /\ table[j].source = Config(2).EXTERNAL_FEED_SOURCE

(* C29: in every interleaving of two invocations, a step of an invocation  *)
(* leaves the rows of every other source as they are, so that the rows of  *)
(* a source are what the runs of that source alone have made them.         *)
C29_SourcesIndependent ==
    [][\A p \in Procs :
          (run[p].pc # "idle" /\ run'[p] # run[p])
             => \A i \in 1..Len(table) :
                   table[i].source # run[p].config.EXTERNAL_FEED_SOURCE
                      => table'[i] = table[i]]_vars


(* C30 as stated: whenever the content type flag of the run is other than  *)
(* "slideshow", the item that a loop iteration normalizes and publishes    *)
(* has isSlideShow = false, the raw body as its body and no slides.        *)
C30_FlagOtherThanSlideshow ==
    [][ProcessStep =>
          \A i \in 1..Len(table) :
             (/\ Config(1).EXTERNAL_FEED_TYPE # "slideshow"
              /\ table[i].status = "pending"
              /\ table'[i].status = "published")
                => /\ table'[i].processed_data.isSlideShow = FALSE
                   /\ table'[i].processed_data.content = RawBody(table[i].full_content.content)
                   /\ table'[i].processed_data.images = <<>>]_vars

(* C30: whenever the content type flag of the run, read in lower case, is  *)
(* other than "slideshow", the item that a loop iteration normalizes and   *)
(* publishes has isSlideShow = false, the raw body unchanged as its body   *)
(* and an empty slide list, and so has the feed item pushed for it.        *)
C30_ArticlePassesThrough ==
    [][ProcessStep =>
          \A i \in 1..Len(table) :
             (/\ toLowerCase(Config(1).EXTERNAL_FEED_TYPE) # "slideshow"
              /\ table[i].status = "pending"
              /\ table'[i].status = "published")
                => /\ table'[i].processed_data.isSlideShow = FALSE
                   /\ table'[i].processed_data.content = RawBody(table[i].full_content.content)
                   /\ table'[i].processed_data.images = <<>>
                   /\ run'[1].feedItems[Len(run'[1].feedItems)] = table'[i].processed_data]_vars

(* a run under a flag other than slideshow has published an item whose     *)
(* body is more than its intro                                             *)
C30_Witness ==
    /\ run[1].pc = "process"
    /\ toLowerCase(Config(1).EXTERNAL_FEED_TYPE) # "slideshow"
    /\ \E i \in 1..Len(table) :
          /\ table[i].status = "published"
          /\ table[i].published_at = now
          /\ table[i].processed_data.isSlideShow = FALSE
          /\ table[i].processed_data.content = RawBody(table[i].full_content.content)
          /\ table[i].processed_data.content # parseSlideShow(table[i].full_content.content).content


(* Vocabulary of segmentation: a slide anchor is a figure with an image    *)
(* whose URL resolves from src or else from data-src.                      *)
IsSlideAnchor(node) == node.kind = "figure" /\ node.img \in {"src", "lazy", "both"}

Anchors(nodes) == {k \in 1..Len(nodes) : IsSlideAnchor(nodes[k])}

(* the smallest member of a non-empty set of positions *)
First(S) == CHOOSE j \in S : \A m \in S : j <= m

(* the m-th slide anchor of a body *)
NthAnchor(nodes, m) ==
    CHOOSE k \in Anchors(nodes) : Cardinality({j \in Anchors(nodes) : j <= k}) = m

(* the step publishes row i of a slideshow source *)
SegmentStep(i) ==
    /\ ProcessStep
    /\ toLowerCase(Config(1).EXTERNAL_FEED_TYPE) = "slideshow"
    /\ i \in 1..Len(table)
    /\ table[i].status = "pending"
    /\ table'[i].status = "published"

(* C31: the slide list of a published slideshow item has one slide per     *)
(* slide anchor of the body, in document order, each with the URL of its   *)
(* anchor, figures without a resolvable image giving no slide; and when    *)
(* the body has an anchor the intro is the text of exactly the nodes      *)
(* before the first anchor.                                                *)
C31_SlidePerAnchorAndIntro ==
    [][\A i \in 1..Len(table) :
          SegmentStep(i) =>
             LET nodes == table[i].full_content.content
                 out == table'[i].processed_data
             IN /\ out.isSlideShow = TRUE
                /\ Len(out.images) = Cardinality(Anchors(nodes))
                /\ \A m \in 1..Len(out.images) :
                      out.images[m].url =
                         (IF nodes[NthAnchor(nodes, m)].img = "lazy" THEN "data-src" ELSE "src")
                /\ Anchors(nodes) # {}
                      => out.content = TextOf(SubSeq(nodes, 1, First(Anchors(nodes)) - 1))]_vars


(* C32: a slideshow body without a slide anchor is published with the      *)
(* text of the whole body as its intro and with an empty slide list.       *)
C32_NoAnchorWholeBodyIsIntro ==
    [][\A i \in 1..Len(table) :
          (SegmentStep(i) /\ Anchors(table[i].full_content.content) = {})
             => /\ table'[i].processed_data.content = TextOf(table[i].full_content.content)
                /\ table'[i].processed_data.images = <<>>]_vars

(* the positions after k of the headings, and of the slide anchors *)
HeadingsAfter(nodes, k) == {j \in (k + 1)..Len(nodes) : nodes[j].kind = "h2"}
AnchorsAfter(nodes, k) == {j \in Anchors(nodes) : j > k}

(* the nodes between the heading at h and the next slide anchor, or the    *)
(* end of the document                                                     *)
BetweenHeadingAndAnchor(nodes, h) ==
    IF AnchorsAfter(nodes, h) = {} THEN SubSeq(nodes, h + 1, Len(nodes))
    ELSE SubSeq(nodes, h + 1, First(AnchorsAfter(nodes, h)) - 1)

(* the title of slide m is the text of the nearest heading after its       *)
(* anchor                                                                  *)
SlideTitleIsNextHeading(nodes, out, m) ==
    LET k == NthAnchor(nodes, m)
    IN HeadingsAfter(nodes, k) # {}
          => out.images[m].title = nodes[First(HeadingsAfter(nodes, k))].text

(* the body of slide m is made of exactly the nodes between that heading   *)
(* and the next slide anchor                                               *)
SlideBodyIsUpToNextAnchor(nodes, out, m) ==
    LET k == NthAnchor(nodes, m)
    IN HeadingsAfter(nodes, k) # {}
          => out.images[m].text =
                TextOf(BetweenHeadingAndAnchor(nodes, First(HeadingsAfter(nodes, k))))

(* no slide body holds a slide anchor *)
NoAnchorInSlideBody(nodes, out) ==
    \A m \in 1..Len(out.images), k \in Anchors(nodes) :
        nodes[k].text \cap out.images[m].text = {}

(* no node is in the body of two slides *)
SlideBodiesDisjoint(out) ==
    \A m, n \in 1..Len(out.images) :
        m # n => out.images[m].text \cap out.images[n].text = {}

(* C33: in a published slideshow item, the title of every slide is the     *)
(* text of the nearest heading after its anchor, its body is exactly the   *)
(* nodes between that heading and the next slide anchor or the end of the  *)
(* document, no slide body holds a slide anchor, and no node is in the     *)
(* body of two slides.                                                     *)
C33_SlideTitleAndBody ==
    [][\A i \in 1..Len(table) :
          SegmentStep(i) =>
             LET nodes == table[i].full_content.content
                 out == table'[i].processed_data
             IN /\ \A m \in 1..Len(out.images) :
                      /\ SlideTitleIsNextHeading(nodes, out, m)
                      /\ SlideBodyIsUpToNextAnchor(nodes, out, m)
                /\ NoAnchorInSlideBody(nodes, out)
                /\ SlideBodiesDisjoint(out)]_vars


WithinTarget(v) == migration.targetVersion = NoTarget \/ v <= migration.targetVersion

(* the files that the invocation saw in the directory *)
FilesSeen == {migration.migrationFiles[k] : k \in 1..Len(migration.migrationFiles)}

PendingOfSource(i) ==
    /\ i \in 1..Len(table)
    /\ Own(DrainConfig, table[i])
    /\ table[i].status = "pending"

(* the position of row i of the table among the rows selected, 0 if the    *)
(* row is not selected                                                     *)
SelectedAt(sel, i) ==
    IF \E k \in 1..Len(sel) : sel[k] = table[i]
    THEN CHOOSE k \in 1..Len(sel) : sel[k] = table[i]
    ELSE 0

C37_FeedSetIsPublished ==
    run[1].pc = "done" =>
       /\ Len(run[1].feedItems) = Len(run[1].processedContentHashes)
       /\ \A k \in 1..Len(run[1].processedContentHashes) :
             LET row == RowOf(table, 1, run[1].processedContentHashes[k])
             IN /\ row # NoRow
                /\ row.status = "published"
                /\ run[1].feedItems[k].guid = row.guid


(* C38: when a run has completed, processedCount + skippedCount is the     *)
(* number of rows it selected, its newly published feed set has            *)
(* processedCount items, and no row it selected is still pending.          *)
C38_SelectedCountedOnce ==
    run[1].pc = "done" =>
       /\ run[1].processedCount + run[1].skippedCount = Len(run[1].pendingItems)
       /\ Len(run[1].feedItems) = run[1].processedCount
       /\ \A k \in 1..Len(run[1].pendingItems) :
             LET row == RowOf(table, 1, run[1].pendingItems[k].content_hash)
             IN row # NoRow => row.status # "pending"


(* C39: when a run has completed, at most 20 previously published rows are *)
(* merged into its feed whatever FEED_MAX_TOTAL_ITEMS is, the final feed   *)
(* has at most min(FEED_MAX_TOTAL_ITEMS, newly published + 20) items, and  *)
(* when FEED_MAX_TOTAL_ITEMS exceeds newly published + 20 the feed is the  *)
(* new items and the rows fetched, fewer than FEED_MAX_TOTAL_ITEMS.        *)
C39_PublishedFetchBounded ==
    run[1].pc = "done" =>
       LET maxTotal == Config(1).FEED_MAX_TOTAL_ITEMS
           new == Len(run[1].feedItems)
       IN /\ Len(run[1].existingPublishedItems) <= PublishedFetchLimit
          /\ Len(run[1].finalFeedItems) <= Min(maxTotal, new + PublishedFetchLimit)
          /\ maxTotal > new + PublishedFetchLimit
                => /\ Len(run[1].finalFeedItems) = new + Len(run[1].existingPublishedItems)
                   /\ Len(run[1].finalFeedItems) < maxTotal

(* a run has completed with FEED_MAX_TOTAL_ITEMS above 20, no new item and *)
(* more than 20 published rows of its source in the store: the feed has 20 *)
(* items                                                                   *)
C39_Witness ==
    /\ run[1].pc = "done"
    /\ Config(1).FEED_MAX_TOTAL_ITEMS > PublishedFetchLimit
    /\ run[1].feedItems = <<>>
    /\ Cardinality({i \in 1..Len(table) :
                       Own(Config(1), table[i]) /\ table[i].status = "published"})
          > PublishedFetchLimit
    /\ Len(run[1].finalFeedItems) = PublishedFetchLimit

=============================================================================
